---- MODULE Spec2Model ----
(***************************************************************************)
(* Model of src/kilo.c: the terminal session (enableRawMode /              *)
(* disableRawMode / die), the geometry probe (getWindowSize) and the       *)
(* render / input loop (editorRefreshScreen / editorProcessKeypress).      *)
(*                                                                         *)
(* The terminal's attributes are a record of flag sets, standard output is *)
(* the stream of bytes written to it, and pc is the position of the single *)
(* thread.  Bytes are the values 0..255 of one input byte.                 *)
(***************************************************************************)
EXTENDS Integers, Sequences, FiniteSets, TLC

\* ------------------------------------------------------------------ bounds
MaxCycles == 2          \* render steps in one run
MaxReads == 3           \* bytes delivered by read() in one run
MaxRows == 2            \* largest ws_row the window-size query answers
MaxCols == 1            \* largest ws_col the window-size query answers
MaxRestoreAttempts == 2 \* runs of the exit hook in one run

\* ------------------------------------------------------- terminal attributes
\* CS8 is a two-bit mask of the character-size field.
CS8 == {"CSIZE_b0", "CSIZE_b1"}

\* A zero-filled struct termios: the value of the global E before main runs.
ZeroTermios ==
  [c_iflag |-> {}, c_oflag |-> {}, c_cflag |-> {}, c_lflag |-> {},
   c_cc |-> [VMIN |-> 0, VTIME |-> 0, VINTR |-> 0]]

\* The usual line-buffered, echoing configuration of a login terminal.
Cooked ==
  [c_iflag |-> {"BRKINT", "ICRNL", "IXON", "IUTF8"},
   c_oflag |-> {"OPOST", "ONLCR"},
   c_cflag |-> {"CSIZE_b0", "CSIZE_b1", "CREAD"},
   c_lflag |-> {"ECHO", "ICANON", "IEXTEN", "ISIG", "ECHOE"},
   c_cc |-> [VMIN |-> 1, VTIME |-> 0, VINTR |-> 3]]

\* A 7-bit serial line with parity checking and stripping.
SevenBit ==
  [c_iflag |-> {"INPCK", "ISTRIP", "ICRNL"},
   c_oflag |-> {"OPOST"},
   c_cflag |-> {"CSIZE_b1", "CREAD", "PARENB"},
   c_lflag |-> {"ECHO", "ICANON", "ISIG"},
   c_cc |-> [VMIN |-> 1, VTIME |-> 0, VINTR |-> 3]]

\* struct termios raw = E.origin_termios; followed by the flag edits.
raw_blockingRead(t) ==
  [c_iflag |-> t.c_iflag \ {"BRKINT", "ICRNL", "INPCK", "ISTRIP", "IXON"},
   c_oflag |-> t.c_oflag \ {"OPOST"},
   c_cflag |-> t.c_cflag \cup CS8,
   c_lflag |-> t.c_lflag \ {"ECHO", "ICANON", "IEXTEN", "ISIG"},
   c_cc |-> [t.c_cc EXCEPT !.VMIN = 1, !.VTIME = 0]]

raw(t) ==
  [c_iflag |-> t.c_iflag \ {"BRKINT", "ICRNL", "INPCK", "ISTRIP", "IXON"},
   c_oflag |-> t.c_oflag \ {"OPOST"},
   c_cflag |-> t.c_cflag \cup CS8,
   c_lflag |-> t.c_lflag \ {"ECHO", "ICANON", "IEXTEN", "ISIG"},
   c_cc |-> [t.c_cc EXCEPT !.VMIN = 0, !.VTIME = 1]]

\* Configurations the terminal can be in when the program starts.
OrigConfigs == {Cooked, SevenBit, raw(Cooked)}

\* ------------------------------------------------------------ input / output
\* Values of the byte a read() delivers: NUL, Ctrl-Q, '1' and 0x91 (both equal
\* to Ctrl-Q in their low five bits) and 'q'.
Bytes == {0, 17, 49, 113, 145}

\* #define CTRL_KEY(k) ((k) & 0x1f)
CTRL_KEY(k) == k % 32

\* The case label of the switch in editorProcessKeypress: CTRL_KEY('q').
IsQuit_masked(k) == CTRL_KEY(k) = CTRL_KEY(113)
IsQuit(k) == k = CTRL_KEY(113)

\* "\x1b[2j" as written by editorRefreshScreen and die.
ClearLower == <<27, 91, 50, 106>>
\* "\x1b[2J" as written by editorProcessKeypress on quit.
ClearUpper == <<27, 91, 50, 74>>
\* "\x1b[H"
CursorHome == <<27, 91, 72>>
\* "~\r\n"
RowMarker == <<126, 13, 10>>

\* for (y = 0; y < E.screenrows; y++) write(STDOUT_FILENO, "~\r\n", 3);
RECURSIVE DrawRows_offByOne(_, _)
DrawRows_offByOne(y, screenrows) ==
  IF y <= screenrows THEN RowMarker \o DrawRows_offByOne(y + 1, screenrows)
  ELSE <<>>

RECURSIVE DrawRowsFrom(_, _)
DrawRowsFrom(y, screenrows) ==
  IF y < screenrows THEN RowMarker \o DrawRowsFrom(y + 1, screenrows)
  ELSE <<>>

editorDrawRows(y, screenrows) == DrawRowsFrom(y, screenrows)

\* The bytes one call of editorRefreshScreen writes.
editorRefreshScreen(screenrows) ==
  ClearLower \o CursorHome \o editorDrawRows(0, screenrows) \o CursorHome

\* atexit(f): handlers run in reverse order of registration.
atexit_dropped(handlers, f) == handlers
atexit(handlers, f) == <<f>> \o handlers

\* The attributes disableRawMode hands to tcsetattr.
RestoreArg_raw(e) == raw(e.origin_termios)
RestoreArg(e) == e.origin_termios

\* Outcomes of calling exit() a second time, from inside an exit handler
\* (undefined in C): the run of handlers continues where it was and the
\* process ends with the new status; the handlers are run again from the
\* start; the process is killed by a trap.
SecondExitOutcomes == {"continue", "rerun", "trap"}

\* ------------------------------------------------------------------- state
VARIABLES
  term,        \* attributes of the controlling terminal
  E,           \* struct editorConfig E
  pc,          \* position of the program
  handlers,    \* functions registered with atexit, next to run first
  out,         \* bytes written to standard output
  err,         \* messages handed to perror
  exitArg,     \* argument of the exit() call in progress, <<>> if none
  exitStatus,  \* <<status>> once the process has ended through exit()
  nread, c, cSet, \* locals of editorReadKey; cSet: c has been assigned
  key,         \* char c of editorProcessKeypress
  hist         \* history of the run, read by the properties only

vars == <<term, E, pc, handlers, out, err, exitArg, exitStatus,
          nread, c, cSet, key, hist>>

Init ==
  /\ term \in OrigConfigs
  /\ E = [screenrows |-> 0, screencols |-> 0, origin_termios |-> ZeroTermios]
  /\ pc = "enableRawMode"
  /\ handlers = <<>>
  /\ out = <<>>
  /\ err = <<>>
  /\ exitArg = <<>>
  /\ exitStatus = <<>>
  /\ nread = 0
  /\ c = 0
  /\ cSet = FALSE
  /\ key = 0
  /\ hist = [termAtEntry |-> term,  \* attributes when the program started
             captured |-> FALSE,    \* tcgetattr succeeded
             rawAttempted |-> FALSE,\* tcsetattr(&raw) was called
             rawApplied |-> FALSE,  \* tcsetattr(&raw) succeeded
             restoreRuns |-> 0,     \* calls of disableRawMode
             restoreFails |-> 0,    \* of which tcsetattr failed
             restoredOK |-> FALSE,  \* the last disableRawMode succeeded
             exitCalls |-> 0,       \* calls of exit()
             firstExit |-> <<>>,    \* argument of the first exit() call
             cause |-> "none",      \* what made the first exit() call
             renders |-> 0,         \* calls of editorRefreshScreen
             renderAt |-> 0,        \* Len(out) when the last of them began
             reads |-> 0,           \* bytes delivered by read()
             timeouts |-> 0,        \* read() calls that returned 0
             quitByteAt |-> <<>>,   \* <<Len(out)>> when 0x11 was first read
             ws |-> <<>>,           \* <<ws_row, ws_col>> of a successful ioctl
             noops |-> 0,           \* keys dispatched without effect
             cycleReads |-> 0,      \* read() calls since the last render
             quitOutAt |-> <<>>]    \* <<Len(out)>> when the quit case began

\* ------------------------------------------------------------------ actions
\* exit(n) called from outside any exit handler: handlers run next.
Exit(n, why, h) ==
  /\ pc' = "exit"
  /\ exitArg' = <<n>>
  /\ hist' = [h EXCEPT !.exitCalls = @ + 1,
                       !.firstExit = IF @ = <<>> THEN <<n>> ELSE @,
                       !.cause = IF @ = "none" THEN why ELSE @]

\* die(s) called from outside any exit handler.
die(s, h) ==
  /\ out' = out \o ClearLower \o CursorHome
  /\ err' = Append(err, s)
  /\ Exit(1, s, h)

\* enableRawMode up to the raw tcsetattr, tcgetattr succeeding.
enableRawMode_capture ==
  /\ pc = "enableRawMode"
  /\ E' = [E EXCEPT !.origin_termios = term]
  /\ handlers' = atexit(handlers, "disableRawMode")
  /\ pc' = "applyRaw"
  /\ hist' = [hist EXCEPT !.captured = TRUE]
  /\ UNCHANGED <<term, out, err, exitArg, exitStatus, nread, c, cSet, key>>

\* tcgetattr fails: die("tcgetattr") before atexit is reached.
enableRawMode_captureFailsRegistered ==
  /\ pc = "enableRawMode"
  /\ handlers' = atexit(handlers, "disableRawMode")
  /\ die("tcgetattr", hist)
  /\ UNCHANGED <<term, E, exitStatus, nread, c, cSet, key>>

enableRawMode_captureFails ==
  /\ pc = "enableRawMode"
  /\ die("tcgetattr", hist)
  /\ UNCHANGED <<term, E, handlers, exitStatus, nread, c, cSet, key>>

\* tcsetattr(STDIN_FILENO, TCSAFLUSH, &raw) succeeds.
enableRawMode_applyInPlace ==
  /\ pc = "applyRaw"
  /\ E' = [E EXCEPT !.origin_termios = raw(@)]
  /\ term' = raw(E.origin_termios)
  /\ pc' = "initEditor"
  /\ hist' = [hist EXCEPT !.rawAttempted = TRUE, !.rawApplied = TRUE]
  /\ UNCHANGED <<handlers, out, err, exitArg, exitStatus,
                 nread, c, cSet, key>>

enableRawMode_apply ==
  /\ pc = "applyRaw"
  /\ term' = raw(E.origin_termios)
  /\ pc' = "initEditor"
  /\ hist' = [hist EXCEPT !.rawAttempted = TRUE, !.rawApplied = TRUE]
  /\ UNCHANGED <<E, handlers, out, err, exitArg, exitStatus,
                 nread, c, cSet, key>>

\* tcsetattr(STDIN_FILENO, TCSAFLUSH, &raw) fails: die("tcsetattr").
enableRawMode_applyUnchecked ==
  /\ pc = "applyRaw"
  /\ pc' = "initEditor"
  /\ hist' = [hist EXCEPT !.rawAttempted = TRUE]
  /\ UNCHANGED <<term, E, handlers, out, err, exitArg, exitStatus,
                 nread, c, cSet, key>>

enableRawMode_applyFails ==
  /\ pc = "applyRaw"
  /\ die("tcsetattr", [hist EXCEPT !.rawAttempted = TRUE])
  /\ UNCHANGED <<term, E, handlers, exitStatus, nread, c, cSet, key>>

\* getWindowSize: -1 when ioctl fails or ws_col is 0, else 0 with the sizes.
getWindowSize(ioctlOK, ws_row, ws_col) ==
  IF ~ioctlOK \/ ws_col = 0 THEN [ret |-> -1, rows |-> 0, cols |-> 0]
  ELSE [ret |-> 0, rows |-> ws_row, cols |-> ws_col]

\* initEditor with getWindowSize returning 0.
initEditor_ok ==
  /\ pc = "initEditor"
  /\ \E ws_row \in 0..MaxRows, ws_col \in 0..MaxCols :
       LET r == getWindowSize(TRUE, ws_row, ws_col) IN
         /\ r.ret = 0
         /\ E' = [E EXCEPT !.screenrows = r.rows, !.screencols = r.cols]
         /\ hist' = [hist EXCEPT !.ws = <<ws_row, ws_col>>]
  /\ pc' = "render"
  /\ UNCHANGED <<term, handlers, out, err, exitArg, exitStatus,
                 nread, c, cSet, key>>

\* initEditor with getWindowSize returning -1: die("getWindowSize").
initEditor_fails ==
  /\ pc = "initEditor"
  /\ \E ioctlOK \in BOOLEAN, ws_row \in 0..MaxRows, ws_col \in 0..MaxCols :
       getWindowSize(ioctlOK, ws_row, ws_col).ret = -1
  /\ die("getWindowSize", hist)
  /\ UNCHANGED <<term, E, handlers, exitStatus, nread, c, cSet, key>>

\* editorRefreshScreen, then the entry of editorReadKey (c not yet assigned).
RefreshScreen ==
  /\ pc = "render"
  /\ hist.renders < MaxCycles
  /\ out' = out \o editorRefreshScreen(E.screenrows)
  /\ cSet' = FALSE
  /\ pc' = "read"
  /\ hist' = [hist EXCEPT !.renders = @ + 1, !.renderAt = Len(out),
                          !.cycleReads = 0]
  /\ UNCHANGED <<term, E, handlers, err, exitArg, exitStatus, nread, c, key>>

\* read() delivers one byte: the while condition holds, the body's test
\* (nread == -1) is false, and editorReadKey reads again.
ReadKey_byte ==
  /\ pc = "read"
  /\ hist.reads < MaxReads
  /\ \E b \in Bytes :
       /\ c' = b
       /\ hist' = [hist EXCEPT !.reads = @ + 1, !.cycleReads = @ + 1,
                     !.quitByteAt = IF @ = <<>> /\ b = 17
                                    THEN <<Len(out)>> ELSE @]
  /\ nread' = 1
  /\ cSet' = TRUE
  /\ UNCHANGED <<term, E, pc, handlers, out, err, exitArg, exitStatus, key>>

\* read() returns 0 (timeout) or -1 (error): the loop ends and editorReadKey
\* returns c, whose value is indeterminate when no byte was assigned to it.
ReadKey_returnDies ==
  /\ pc = "read"
  /\ \E n \in {0, -1} :
       /\ nread' = n
       /\ IF n = -1
          THEN /\ die("read", [hist EXCEPT !.cycleReads = @ + 1])
               /\ key' = key
          ELSE /\ hist' = [hist EXCEPT !.timeouts = @ + 1,
                                       !.cycleReads = @ + 1]
               /\ \E k \in Bytes : (cSet => k = c) /\ key' = k
               /\ pc' = "dispatch"
               /\ UNCHANGED <<out, err, exitArg>>
  /\ UNCHANGED <<term, E, handlers, exitStatus, c, cSet>>

ReadKey_return ==
  /\ pc = "read"
  /\ \E n \in {0, -1} :
       /\ nread' = n
       /\ hist' = [hist EXCEPT !.timeouts = IF n = 0 THEN @ + 1 ELSE @,
                               !.cycleReads = @ + 1]
  /\ \E k \in Bytes :
       /\ cSet => k = c
       /\ key' = k
  /\ pc' = "dispatch"
  /\ UNCHANGED <<term, E, handlers, out, err, exitArg, exitStatus, c, cSet>>

\* case CTRL_KEY('q'): clear, home, exit(0).
ProcessKeypress_quit ==
  /\ pc = "dispatch"
  /\ IsQuit(key)
  /\ out' = out \o ClearUpper \o CursorHome
  /\ Exit(0, "quit", [hist EXCEPT !.quitOutAt = <<Len(out)>>])
  /\ UNCHANGED <<term, E, handlers, err, exitStatus, nread, c, cSet, key>>

\* Any other value of c: the switch has no matching case.
ProcessKeypress_other ==
  /\ pc = "dispatch"
  /\ ~IsQuit(key)
  /\ pc' = "render"
  /\ hist' = [hist EXCEPT !.noops = @ + 1]
  /\ UNCHANGED <<term, E, handlers, out, err, exitArg, exitStatus,
                 nread, c, cSet, key>>

\* exit() runs the next handler, disableRawMode, and its tcsetattr succeeds.
disableRawMode_ok ==
  /\ pc = "exit"
  /\ handlers # <<>>
  /\ term' = RestoreArg(E)
  /\ handlers' = Tail(handlers)
  /\ hist' = [hist EXCEPT !.restoreRuns = @ + 1, !.restoredOK = TRUE]
  /\ UNCHANGED <<E, pc, out, err, exitArg, exitStatus, nread, c, cSet, key>>

\* disableRawMode's tcsetattr fails: die("tcsetattr") writes and reports,
\* then calls exit(1) while exit() is already running.
disableRawMode_fails ==
  /\ pc = "exit"
  /\ handlers # <<>>
  /\ out' = out \o ClearLower \o CursorHome
  /\ err' = Append(err, "tcsetattr")
  /\ exitArg' = <<1>>
  /\ hist' = [hist EXCEPT !.restoreRuns = @ + 1, !.restoreFails = @ + 1,
                          !.restoredOK = FALSE, !.exitCalls = @ + 1]
  /\ \E outcome \in SecondExitOutcomes :
       \/ /\ outcome = "continue"
          /\ handlers' = Tail(handlers)
          /\ pc' = "exit"
       \/ /\ outcome = "rerun"
          /\ hist.restoreRuns + 1 < MaxRestoreAttempts
          /\ handlers' = handlers
          /\ pc' = "exit"
       \/ /\ outcome = "trap"
          /\ handlers' = handlers
          /\ pc' = "killed"
  /\ UNCHANGED <<term, E, exitStatus, nread, c, cSet, key>>

\* exit() has no handler left to run: the process ends with its argument.
Terminate ==
  /\ pc = "exit"
  /\ handlers = <<>>
  /\ pc' = "done"
  /\ exitStatus' = exitArg
  /\ UNCHANGED <<term, E, handlers, out, err, exitArg, nread, c, cSet, key,
                 hist>>

Next ==
  \/ enableRawMode_capture
  \/ enableRawMode_captureFails
  \/ enableRawMode_apply
  \/ enableRawMode_applyFails
  \/ initEditor_ok
  \/ initEditor_fails
  \/ RefreshScreen
  \/ ReadKey_byte
  \/ ReadKey_return
  \/ ProcessKeypress_quit
  \/ ProcessKeypress_other
  \/ disableRawMode_ok
  \/ disableRawMode_fails
  \/ Terminate

Spec == Init /\ [][Next]_vars

\* ------------------------------------- the earliest snapshot (part_000)
\* Its global origin_termios is held in E.origin_termios; it has no die, no
\* window size and no output, and checks no return value of tcgetattr or
\* tcsetattr.

\* struct termios raw = origin_termios; raw.c_lflag &= ~(ECHO);
raw_part000_noCanon(t) == [t EXCEPT !.c_lflag = @ \ {"ECHO", "ICANON"}]
raw_part000(t) == [t EXCEPT !.c_lflag = @ \ {"ECHO"}]

SnapInit ==
  /\ term \in OrigConfigs
  /\ E = [screenrows |-> 0, screencols |-> 0, origin_termios |-> ZeroTermios]
  /\ pc = "snap_enableRawMode"
  /\ handlers = <<>>
  /\ out = <<>>
  /\ err = <<>>
  /\ exitArg = <<>>
  /\ exitStatus = <<>>
  /\ nread = 0
  /\ c = 0
  /\ cSet = FALSE
  /\ key = 0
  /\ hist = [termAtEntry |-> term, captured |-> FALSE,
             rawAttempted |-> FALSE, rawApplied |-> FALSE,
             restoreRuns |-> 0, restoreFails |-> 0, restoredOK |-> FALSE,
             exitCalls |-> 0, firstExit |-> <<>>, cause |-> "none",
             renders |-> 0, renderAt |-> 0, reads |-> 0, timeouts |-> 0,
             quitByteAt |-> <<>>, ws |-> <<>>, noops |-> 0,
             cycleReads |-> 0, quitOutAt |-> <<>>]

\* enableRawMode of the snapshot.  tcgetattr fails only when standard input
\* is no usable terminal, and then the tcsetattr calls fail as well; on a
\* terminal a tcsetattr may still fail.
Snap_enableRawMode ==
  /\ pc = "snap_enableRawMode"
  /\ \E getOK \in BOOLEAN, setOK \in BOOLEAN :
       LET origin == IF getOK THEN term ELSE E.origin_termios IN
         /\ setOK => getOK
         /\ E' = [E EXCEPT !.origin_termios = origin]
         /\ term' = IF setOK THEN raw_part000(origin) ELSE term
         /\ hist' = [hist EXCEPT !.captured = getOK,
                                 !.rawAttempted = TRUE,
                                 !.rawApplied = setOK]
  /\ handlers' = atexit(handlers, "disableRawMode")
  /\ pc' = "snap_loop"
  /\ UNCHANGED <<out, err, exitArg, exitStatus, nread, c, cSet, key>>

\* while (read(STDIN_FILENO, &c, 1) == 1 && c != 'q'); return 0;
Snap_read ==
  /\ pc = "snap_loop"
  /\ \E n \in {1, 0, -1} :
       /\ nread' = n
       /\ IF n = 1
          THEN /\ hist.reads < MaxReads
               /\ \E b \in Bytes :
                    /\ c' = b
                    /\ cSet' = TRUE
                    /\ IF b # 113
                       THEN /\ pc' = "snap_loop"
                            /\ exitArg' = exitArg
                            /\ hist' = [hist EXCEPT !.reads = @ + 1]
                       ELSE Exit(0, "q", [hist EXCEPT !.reads = @ + 1])
          ELSE /\ UNCHANGED <<c, cSet>>
               /\ Exit(0, "read", hist)
  /\ UNCHANGED <<term, E, handlers, out, err, exitStatus, key>>

\* exit() runs disableRawMode: tcsetattr(&origin_termios), result ignored.
Snap_disableRawMode ==
  /\ pc = "exit"
  /\ handlers # <<>>
  /\ \E setOK \in BOOLEAN :
       /\ setOK => hist.captured
       /\ term' = IF setOK THEN RestoreArg(E) ELSE term
       /\ hist' = [hist EXCEPT !.restoreRuns = @ + 1,
                               !.restoreFails = IF setOK THEN @ ELSE @ + 1,
                               !.restoredOK = setOK]
  /\ handlers' = Tail(handlers)
  /\ UNCHANGED <<E, pc, out, err, exitArg, exitStatus, nread, c, cSet, key>>

SnapNext ==
  \/ Snap_enableRawMode
  \/ Snap_read
  \/ Snap_disableRawMode
  \/ Terminate

SnapSpec == SnapInit /\ [][SnapNext]_vars

\* The process has ended, through exit() or by a trap.
Ended == pc \in {"done", "killed"}

\* The bytes of the latest render step, while nothing was written after it.
AfterRender == pc \in {"read", "dispatch"}
LastRender == SubSeq(out, hist.renderAt + 1, Len(out))

\* ------------------------------------------------------------------ claims

\* C1 as stated: whenever the process has ended (quit, or die after a
\* tcgetattr, tcsetattr or getWindowSize failure), disableRawMode has run.
C1_RestoreOnEveryExit == Ended => hist.restoreRuns >= 1

\* C1 amended: when the process has ended, disableRawMode has run exactly if
\* tcgetattr had succeeded; the exit after a failed tcgetattr runs no restore.
C1_RestoreAfterCapture == Ended => (hist.restoreRuns >= 1 <=> hist.captured)

\* A fatal exit after a successful capture, with the restore executed.
C1_Witness ==
  /\ pc = "done"
  /\ hist.captured
  /\ hist.cause = "getWindowSize"
  /\ hist.restoreRuns >= 1

\* C2: when the geometry failure is detected, no tcsetattr of the raw
\* configuration has been executed, the terminal still has its original
\* configuration, and the process ends with status 1.
C2_GeometryFailsBeforeRaw ==
  hist.cause = "getWindowSize" =>
    /\ ~hist.rawAttempted
    /\ term = hist.termAtEntry
    /\ pc = "done" => exitStatus = <<1>>

\* C3: once a read has delivered 0x11, no row-marker byte is written any
\* more, and the process ends with status 0 after clear-screen, cursor-home
\* (stated for the runs whose restore does not fail, which C6 is about).
C3_QuitByteEndsRun ==
  hist.quitByteAt # <<>> =>
    LET after == SubSeq(out, hist.quitByteAt[1] + 1, Len(out)) IN
      /\ \A i \in 1..Len(after) : after[i] # 126
      /\ (pc = "done" /\ hist.restoreFails = 0) =>
           /\ exitStatus = <<0>>
           /\ after = <<27, 91, 50, 74, 27, 91, 72>>

\* C4: a read that timed out (nread = 0) yields no command: the next step
\* goes back to the render step, neither to exit(0) nor to die.
C4_TimeoutYieldsNoCommand ==
  [][(pc = "dispatch" /\ nread = 0) => pc' = "render"]_vars

\* C5: the output of every render step begins with ESC [ 2 J, ESC [ H.
C5_RenderPrefix ==
  AfterRender => SubSeq(LastRender, 1, 7) = <<27, 91, 50, 74, 27, 91, 72>>

\* C6: a failed restore is only reported: exit() is not called again, the
\* process is not killed, and it ends with the status first passed to exit().
C6_RestoreFailureSwallowed ==
  hist.restoreFails > 0 =>
    /\ hist.exitCalls = 1
    /\ pc # "killed"
    /\ pc = "done" => exitStatus = hist.firstExit

\* C7: after the raw tcsetattr and the restoring tcsetattr both succeeded,
\* the terminal's attributes equal, field by field, those it had when
\* tcgetattr captured them.
C7_RestoreRoundTrip ==
  (hist.rawApplied /\ hist.restoredOK) =>
    /\ term.c_iflag = hist.termAtEntry.c_iflag
    /\ term.c_oflag = hist.termAtEntry.c_oflag
    /\ term.c_cflag = hist.termAtEntry.c_cflag
    /\ term.c_lflag = hist.termAtEntry.c_lflag
    /\ term.c_cc = hist.termAtEntry.c_cc

\* Raw mode changed the terminal, a render/input cycle ran, and the restore
\* succeeded.
C7_Witness ==
  /\ hist.rawApplied
  /\ hist.restoredOK
  /\ hist.renders >= 1
  /\ raw(hist.termAtEntry) # hist.termAtEntry
  /\ term = hist.termAtEntry

\* C8: a process that has ended through exit() has status 0 exactly when
\* the quit command caused the exit and status 1 exactly when a tcgetattr,
\* tcsetattr or getWindowSize failure did; there is no other status.
C8_ExitStatusByCause ==
  pc = "done" =>
    /\ exitStatus \in {<<0>>, <<1>>}
    /\ exitStatus = <<0>> <=> hist.cause = "quit"
    /\ exitStatus = <<1>> <=>
         hist.cause \in {"tcgetattr", "tcsetattr", "getWindowSize"}

RawInEffect == hist.rawApplied /\ ~hist.restoredOK

\* C11 as stated: the raw configuration in effect is the captured original
\* with exactly ECHO, ICANON, ISIG, IEXTEN, OPOST, IXON, INPCK, BRKINT and
\* ISTRIP cleared, CS8 set, VMIN = 0 and VTIME = 1, and nothing else changed.
C11_RawAsListed ==
  RawInEffect =>
    LET o == hist.termAtEntry IN
      /\ term.c_iflag = o.c_iflag \ {"IXON", "INPCK", "BRKINT", "ISTRIP"}
      /\ term.c_oflag = o.c_oflag \ {"OPOST"}
      /\ term.c_cflag = o.c_cflag \cup {"CSIZE_b0", "CSIZE_b1"}
      /\ term.c_lflag = o.c_lflag \ {"ECHO", "ICANON", "ISIG", "IEXTEN"}
      /\ term.c_cc.VMIN = 0
      /\ term.c_cc.VTIME = 1
      /\ term.c_cc.VINTR = o.c_cc.VINTR

\* C11 amended: as stated, with ICRNL (carriage return to newline on input)
\* cleared as well.
C11_RawAsApplied ==
  RawInEffect =>
    LET o == hist.termAtEntry IN
      /\ term.c_iflag =
           o.c_iflag \ {"IXON", "INPCK", "BRKINT", "ISTRIP", "ICRNL"}
      /\ term.c_oflag = o.c_oflag \ {"OPOST"}
      /\ term.c_cflag = o.c_cflag \cup {"CSIZE_b0", "CSIZE_b1"}
      /\ term.c_lflag = o.c_lflag \ {"ECHO", "ICANON", "ISIG", "IEXTEN"}
      /\ term.c_cc.VMIN = 0
      /\ term.c_cc.VTIME = 1
      /\ term.c_cc.VINTR = o.c_cc.VINTR

\* Raw mode is in effect on a 7-bit terminal that had ICRNL, parity checking
\* and a blocking read policy.
C11_Witness ==
  /\ RawInEffect
  /\ pc = "render"
  /\ "ICRNL" \in hist.termAtEntry.c_iflag
  /\ "CSIZE_b0" \notin hist.termAtEntry.c_cflag
  /\ hist.termAtEntry.c_cc.VMIN = 1

\* The render / input loop of main is running.
InLoop == pc \in {"render", "read", "dispatch"}

\* C12: a loop cycle makes exactly one read() call: at most one read() call
\* has been made since the last render step, and exactly one when the key
\* read has returned.
C12_OneReadPerCycle ==
  /\ hist.cycleReads <= 1
  /\ pc = "dispatch" => hist.cycleReads = 1

\* C13: while the render loop runs, screenrows >= 1 and screencols >= 1.
C13_PositiveDimensions ==
  InLoop => (E.screenrows >= 1 /\ E.screencols >= 1)

\* State of the terminal session: Restored once disableRawMode has run,
\* RawActive after a successful capture and raw tcsetattr, else Uninitialized.
SessionState ==
  IF hist.restoreRuns > 0 THEN "Restored"
  ELSE IF hist.captured /\ hist.rawApplied THEN "RawActive"
  ELSE "Uninitialized"

SessionRank ==
  IF SessionState = "Uninitialized" THEN 0
  ELSE IF SessionState = "RawActive" THEN 1 ELSE 2

\* C14: the session state never moves back, and every render step and every
\* read() call is made in RawActive, with the raw configuration in effect and
\* the dimensions read.
C14_SessionForward ==
  [][/\ SessionRank <= SessionRank'
     /\ (hist'.renders > hist.renders \/ hist'.cycleReads > hist.cycleReads)
          => /\ SessionState = "RawActive"
             /\ SessionState' = "RawActive"
             /\ term = raw(hist.termAtEntry)
             /\ hist.ws # <<>>
             /\ hist.exitCalls = 0]_vars

\* A run that rendered, read a byte, quit and restored.
C14_Witness ==
  /\ pc = "done"
  /\ hist.renders >= 1
  /\ hist.reads >= 1
  /\ SessionState = "Restored"
  /\ hist.restoredOK

\* C15: the 7 bytes written by the quit case equal the 7 bytes that begin
\* the render step before it.
C15_QuitSequencesAsRender ==
  hist.quitOutAt # <<>> =>
    SubSeq(out, hist.quitOutAt[1] + 1, hist.quitOutAt[1] + 7) =
      SubSeq(out, hist.renderAt + 1, hist.renderAt + 7)

\* C16: once captured, E.origin_termios holds the captured attributes and no
\* step changes it.
C16_OriginWriteOnce ==
  [][hist.captured =>
       /\ E.origin_termios = hist.termAtEntry
       /\ E'.origin_termios = E.origin_termios
       /\ hist'.captured]_vars

\* A full run (raw mode differing from the original, render, quit, restore)
\* after which the stored original is still the captured one.
C16_Witness ==
  /\ pc = "done"
  /\ hist.captured
  /\ hist.rawApplied
  /\ hist.renders >= 1
  /\ hist.restoreRuns >= 1
  /\ raw(hist.termAtEntry) # hist.termAtEntry
  /\ E.origin_termios = hist.termAtEntry

\* C17: the raw tcsetattr, the registration of the restore and the restore
\* itself happen only after a successful tcgetattr; after a failed one the
\* process is exiting through die("tcgetattr") and ends with status 1, the
\* terminal's attributes untouched.
C17_NoWriteWithoutCapture ==
  /\ (hist.rawAttempted \/ hist.restoreRuns > 0 \/ handlers # <<>>)
       => hist.captured
  /\ (~hist.captured /\ pc # "enableRawMode") =>
       /\ pc \in {"exit", "done"}
       /\ hist.cause = "tcgetattr"
       /\ term = hist.termAtEntry
       /\ pc = "done" => exitStatus = <<1>>

\* The process has ended after a failed tcgetattr.
C17_Witness ==
  /\ pc = "done"
  /\ ~hist.captured
  /\ hist.restoreRuns = 0
  /\ exitStatus = <<1>>

C19_SnapshotLoopAndRestore ==
  [][/\ pc = "snap_loop" =>
          /\ pc' = "snap_loop" <=> (nread' = 1 /\ c' # 113)
          /\ pc' # "snap_loop" => (pc' = "exit" /\ exitArg' = <<0>>)
     /\ (pc' = "snap_loop" /\ hist'.rawApplied) =>
          /\ term'.c_lflag = E'.origin_termios.c_lflag \ {"ECHO"}
          /\ term'.c_iflag = E'.origin_termios.c_iflag
          /\ term'.c_oflag = E'.origin_termios.c_oflag
          /\ term'.c_cflag = E'.origin_termios.c_cflag
          /\ term'.c_cc = E'.origin_termios.c_cc
     /\ hist'.captured => E'.origin_termios = hist'.termAtEntry
     /\ hist'.restoredOK => term' = E'.origin_termios
     /\ pc' = "done" => (exitStatus' = <<0>> /\ hist'.restoreRuns = 1)]_vars

\* The snapshot ran on an echoing terminal, read a byte, ended and restored.
C19_Witness ==
  /\ pc = "done"
  /\ exitStatus = <<0>>
  /\ hist.rawApplied
  /\ hist.restoredOK
  /\ hist.reads >= 2
  /\ "ECHO" \in term.c_lflag
  /\ term = hist.termAtEntry

====
